---------------------------- MODULE Spec2Model ----------------------------
(***************************************************************************)
(* A model of the coding-challenge backend: the grader (src/grader.py) and *)
(* the leaderboard kept by the three FastAPI applications                  *)
(* (src/server.py, src/api/api_server.py, src/api/index.py).               *)
(*                                                                         *)
(* Three specifications share the variables:                               *)
(*   Spec        the submit / leaderboard handlers of one application      *)
(*   SpecGrade   one call of grade_submission, one test case at a time     *)
(*   SpecCompare the output comparison of grade_submission on its own      *)
(***************************************************************************)
EXTENDS Integers, Sequences, FiniteSets, TLC

(***************************************************************************)
(* Bounds of the model.                                                    *)
(***************************************************************************)
\* submissions accepted by one run of Spec
MaxSubmits == 3
\* longest output string compared in SpecCompare
MaxLen == 3
\* most test cases (public and hidden together) of the problem graded in
\* SpecGrade
MaxTests == 3
\* the test cases of the problem p3, graded in SpecReport
MaxCases == 6

(***************************************************************************)
(* Strings are sequences of one-character strings.                         *)
(***************************************************************************)
Alphabet == {" ", "\n", "a", "A"}

\* str.strip() with no argument removes whitespace, of which the alphabet
\* holds the space and the newline
Whitespace == {" ", "\n"}

RECURSIVE StringsUpTo(_)
StringsUpTo(n) ==
    IF n = 0 THEN {<<>>}
    ELSE LET shorter == StringsUpTo(n - 1)
         IN  shorter \cup {Append(s, c) : s \in {x \in shorter : Len(x) = n - 1},
                                           c \in Alphabet}

RECURSIVE lstrip(_)
lstrip(s) ==
    IF s # <<>> /\ Head(s) \in Whitespace THEN lstrip(Tail(s)) ELSE s

RECURSIVE rstrip(_)
rstrip(s) ==
    IF s # <<>> /\ s[Len(s)] \in Whitespace
    THEN rstrip(SubSeq(s, 1, Len(s) - 1))
    ELSE s

\* grader.py: result.stdout.strip(), case["expected_output"].strip()
strip(s) == rstrip(lstrip(s))

RECURSIVE replace_spaces(_)
\* grader.py: .replace(" ", "")
replace_spaces(s) ==
    IF s = <<>> THEN <<>>
    ELSE IF Head(s) = " " THEN replace_spaces(Tail(s))
    ELSE <<Head(s)>> \o replace_spaces(Tail(s))

\* a comparison that drops every whitespace character: a mutant of normalize
normalize_all_whitespace(s) == SelectSeq(s, LAMBDA c : c \notin Whitespace)

\* grader.py lines 50-55: strip, then remove the spaces
normalize(s) == replace_spaces(strip(s))

\* grader.py line 57: user_output_normalized == expected_output_normalized
compare(actual, expected) == normalize(actual) = normalize(expected)


(***************************************************************************)
(* Timestamps.  The clock counts half seconds.  datetime.isoformat() gives *)
(* "...:SS" when the microseconds are zero and "...:SS.ffffff" otherwise;  *)
(* the date, hour and minute are a prefix common to every timestamp of a   *)
(* run and are left out.  A timestamp is the sequence of the code points   *)
(* of its characters ("." is 46, "0" is 48), which is what Python's string *)
(* comparison compares.                                                    *)
(***************************************************************************)
\* server.py line 258, api_server.py line 61, index.py line 81
isoformat(t) ==
    <<48 + ((t \div 2) \div 10), 48 + ((t \div 2) % 10)>>
        \o (IF t % 2 = 0 THEN <<>> ELSE <<46, 53>>)

RECURSIVE StrLess(_, _)
\* Python's < on two strings: lexicographic by code point
StrLess(a, b) ==
    IF b = <<>> THEN FALSE
    ELSE IF a = <<>> THEN TRUE
    ELSE IF Head(a) # Head(b) THEN Head(a) < Head(b)
    ELSE StrLess(Tail(a), Tail(b))

(***************************************************************************)
(* The leaderboard query.                                                  *)
(***************************************************************************)
\* a key that ranks the later timestamp first: a mutant of KeyLess
KeyLessLatestFirst(x, y) ==
    \/ x.score > y.score
    \/ x.score = y.score /\ StrLess(y.timestamp, x.timestamp)

\* key=lambda x: (-x["score"], x["timestamp"]): the order of two keys
KeyLess(x, y) ==
    \/ x.score > y.score
    \/ x.score = y.score /\ StrLess(x.timestamp, y.timestamp)

\* x goes before the first element whose key is greater than its own
InsertByKey(sortedSeq, x) ==
    LET later == {k \in 1..Len(sortedSeq) : KeyLess(x, sortedSeq[k])}
        at    == IF later = {} THEN Len(sortedSeq) + 1
                 ELSE CHOOSE k \in later : \A m \in later : k <= m
    IN  SubSeq(sortedSeq, 1, at - 1) \o <<x>>
            \o SubSeq(sortedSeq, at, Len(sortedSeq))

RECURSIVE sorted(_)
\* sorted(entries, key=...) and list.sort(key=...): Python's sort is stable
sorted(entries) ==
    IF entries = <<>> THEN <<>>
    ELSE InsertByKey(sorted(SubSeq(entries, 1, Len(entries) - 1)),
                     entries[Len(entries)])

\* the keys of the dict `problems`, in the order of their first insertion
problems_keys(subs) ==
    LET firsts == SelectSeq([k \in 1..Len(subs) |-> k],
                     LAMBDA k : \A m \in 1..(k - 1) :
                                    subs[m].problem_id # subs[k].problem_id)
    IN  [k \in 1..Len(firsts) |-> subs[firsts[k]].problem_id]

\* the entries whose user_id was not seen at an earlier position
first_per_user(entries) ==
    LET keep == SelectSeq([k \in 1..Len(entries) |-> k],
                    LAMBDA k : \A m \in 1..(k - 1) :
                                   entries[m].user_id # entries[k].user_id)
    IN  [k \in 1..Len(keep) |-> entries[keep[k]]]

LeaderboardRow(entry) ==
    [user_id       |-> entry.user_id,
     problem_id    |-> entry.problem_id,
     score         |-> entry.score,
     replay_result |-> entry.replay_result,
     timestamp     |-> entry.timestamp]

RECURSIVE best_per_problem(_, _)
\* server.py lines 456-471: for each problem, the best entry of each user
best_per_problem(pids, subs) ==
    IF pids = <<>> THEN <<>>
    ELSE LET entries == SelectSeq(subs, LAMBDA e : e.problem_id = Head(pids))
             best    == first_per_user(sorted(entries))
         IN  [k \in 1..Len(best) |-> LeaderboardRow(best[k])]
                 \o best_per_problem(Tail(pids), subs)

\* server.py lines 441-476 and index.py lines 173-208
server_get_leaderboard(subs) ==
    IF subs = <<>> THEN <<>>
    ELSE sorted(best_per_problem(problems_keys(subs), subs))

\* api_server.py lines 81-104: one row per user_id, whatever the problem
api_get_leaderboard(subs) ==
    IF subs = <<>> THEN <<>>
    ELSE LET best == first_per_user(sorted(subs))
         IN  [k \in 1..Len(best) |->
                 [user_id       |-> best[k].user_id,
                  score         |-> best[k].score,
                  replay_result |-> best[k].replay_result,
                  timestamp     |-> best[k].timestamp]]

\* the leaderboard query of the application `a`
get_leaderboard(a, subs) ==
    IF a = "api_server" THEN api_get_leaderboard(subs)
    ELSE server_get_leaderboard(subs)


(***************************************************************************)
(* The grader.  What the child process of one test case does is the        *)
(* environment's choice:                                                   *)
(*   tmp_error   the temporary file cannot be created or written: the      *)
(*               exception leaves grade_submission                         *)
(*   exec_error  subprocess.run raises something other than a timeout, as  *)
(*               OSError when the child process cannot be spawned          *)
(*   timeout     subprocess.TimeoutExpired                                 *)
(*   exit        the child ends with `returncode` and `stdout`             *)
(***************************************************************************)
Outputs == {<<"a">>, <<" ", "a", "\n">>, <<"A">>, <<>>}

ChildOutcomes ==
    [kind : {"tmp_error", "exec_error", "timeout"}, returncode : {0}, stdout : {<<>>}]
        \cup [kind : {"exit"}, returncode : {0, 1}, stdout : Outputs]

\* an error message, f"Test {i+1}: <what>": the test's number and its kind
ErrorDetail(i, what) == [test |-> i + 1, what |-> what]

\* a loop body that reports a timeout as a runtime error: a mutant of judge
judge_timeout_as_runtime_error(st, i, case, out) ==
    CASE out.kind = "timeout" ->
           [st EXCEPT !.error_details = Append(@, ErrorDetail(i, "Runtime error"))]
      [] out.kind = "exec_error" ->
           [st EXCEPT !.error_details = Append(@, ErrorDetail(i, "Execution error"))]
      [] out.kind = "exit" /\ out.returncode # 0 ->
           [st EXCEPT !.error_details = Append(@, ErrorDetail(i, "Runtime error"))]
      [] out.kind = "exit" /\ out.returncode = 0 ->
           IF compare(out.stdout, case.expected_output)
           THEN [st EXCEPT !.passed_count = @ + 1]
           ELSE [st EXCEPT !.error_details = Append(@, ErrorDetail(i, "Expected"))]

\* a loop body that compares the output whatever the exit code: a mutant
\* of judge
judge_compares_any_exit(st, i, case, out) ==
    CASE out.kind = "timeout" ->
           [st EXCEPT !.error_details = Append(@, ErrorDetail(i, "Timeout"))]
      [] out.kind = "exec_error" ->
           [st EXCEPT !.error_details = Append(@, ErrorDetail(i, "Execution error"))]
      [] out.kind = "exit" ->
           IF compare(out.stdout, case.expected_output)
           THEN [st EXCEPT !.passed_count = @ + 1]
           ELSE [st EXCEPT !.error_details = Append(@, ErrorDetail(i, "Expected"))]

\* grader.py lines 38-67: the body of the loop for test case i (0-based)
\* once its temporary file is written
judge(st, i, case, out) ==
    CASE out.kind = "timeout" ->
           [st EXCEPT !.error_details = Append(@, ErrorDetail(i, "Timeout"))]
      [] out.kind = "exec_error" ->
           [st EXCEPT !.error_details = Append(@, ErrorDetail(i, "Execution error"))]
      [] out.kind = "exit" /\ out.returncode # 0 ->
           [st EXCEPT !.error_details = Append(@, ErrorDetail(i, "Runtime error"))]
      [] out.kind = "exit" /\ out.returncode = 0 ->
           IF compare(out.stdout, case.expected_output)
           THEN [st EXCEPT !.passed_count = @ + 1]
           ELSE [st EXCEPT !.error_details = Append(@, ErrorDetail(i, "Expected"))]

\* a verdict that looks at passed_count == 0 first: a mutant of
\* replay_result
replay_result_failed_first(passed_count, total_cases) ==
    IF passed_count = 0 THEN "failed"
    ELSE IF passed_count = total_cases THEN "passed" ELSE "partially"

\* grader.py lines 77-79
replay_result(passed_count, total_cases) ==
    IF passed_count = total_cases THEN "passed"
    ELSE IF passed_count > 0 THEN "partially" ELSE "failed"

\* seq[:n]
Take(seq, n) == SubSeq(seq, 1, IF Len(seq) < n THEN Len(seq) ELSE n)

\* a test list that leaves the hidden tests out: a mutant of all_tests
all_tests_public_only(test_data) == test_data.public_tests

\* grader.py line 15
all_tests(test_data) == test_data.public_tests \o test_data.hidden_tests

\* grader.py lines 81-97; of result["submission_entry"] the error details,
\* the one field the callers do not overwrite or leave unread
grade_result(passed_count, total_cases, error_details) ==
    [score               |-> passed_count,
     total               |-> total_cases,
     replay_result       |-> replay_result(passed_count, total_cases),
     entry_error_details |-> Take(error_details, 3),
     error_details       |-> Take(error_details, 5)]

RECURSIVE grade_loop(_, _, _, _)
\* grader.py lines 20-75: the loop from test case i on; "raised" when a
\* temporary file cannot be written
grade_loop(st, i, tests, outs) ==
    IF i = Len(tests) THEN [raised |-> FALSE, st |-> st]
    ELSE IF outs[i + 1].kind = "tmp_error" THEN [raised |-> TRUE, st |-> st]
    ELSE grade_loop(judge(st, i, tests[i + 1], outs[i + 1]), i + 1, tests, outs)

\* grader.py lines 8-97 for a problem that exists: the whole call, given
\* what each child does
grade_submission(test_data, outs) ==
    LET tests == all_tests(test_data)
        run   == grade_loop([passed_count |-> 0, error_details |-> <<>>],
                            0, tests, outs)
    IN  IF run.raised THEN [raised |-> TRUE, error |-> "OSError"]
        ELSE [raised |-> FALSE,
              result |-> grade_result(run.st.passed_count, Len(tests),
                                      run.st.error_details)]


(***************************************************************************)
(* The state.                                                              *)
(***************************************************************************)
VARIABLES
    app,               \* which application runs: its module is the program
    submissions,       \* the global list `submissions`
    leaderboard_file,  \* leaderboard.json
    now,               \* the wall clock, in half seconds
    uuid_count,        \* how many uuid4() values the grader has drawn
    history,           \* per (user, problem): every record made, in order
    running,           \* the request handler the event loop is running, or 0
    requests,          \* per handler: where it is and its local variables
    last_leaderboard,  \* the leaderboards answered since the latest submit
    grade,             \* SpecGrade: the frame of one call of
                       \* grade_submission or of run_code
    cmp                \* SpecCompare: one output comparison

vars == <<app, submissions, leaderboard_file, now, uuid_count, history,
          running, requests, last_leaderboard, grade, cmp>>

Apps == {"server", "api_server", "index"}
Users == {"u1", "u2"}
Tasks == {1, 2}

\* test_cases/<problem_id>.json: p1 has one public test, p2 is a file
\* without tests, `{}`, p3 has one public test and hidden tests
test_cases ==
    [p1 |-> [public_tests |-> <<[input |-> "1", expected_output |-> <<"a">>]>>,
             hidden_tests |-> <<>>],
     p2 |-> [public_tests |-> <<>>, hidden_tests |-> <<>>],
     p3 |-> [public_tests |-> <<[input |-> "1", expected_output |-> <<"a">>]>>,
             hidden_tests |-> [k \in 1..(MaxCases - 1) |->
                                  [input |-> "2", expected_output |-> <<"a">>]]]]

Problems == DOMAIN test_cases

\* the problem ids the requests of Spec name: "missing" has no test-case
\* file
ProblemIds == {"p1", "p2", "missing"}
Pairs == Users \X (Problems \cup {"missing"})

\* grader.py lines 8-97: the call for the problem id of the request
grade_submission_of(problem_id, outs) ==
    IF problem_id \notin Problems
    THEN [raised |-> TRUE, error |-> "FileNotFoundError"]
    ELSE grade_submission(test_cases[problem_id], outs)

\* what the children of the test cases of a problem can do, one after the
\* other
OutcomesOf(problem_id, outcomes) ==
    IF problem_id \notin Problems THEN {<<>>}
    ELSE [1..Len(all_tests(test_cases[problem_id])) -> outcomes]

\* what a child does in a submission of Spec: one outcome of each class
SubmitOutcomes ==
    {o \in ChildOutcomes :
        \/ o.kind = "tmp_error"
        \/ o.kind = "exit" /\ o.returncode = 0 /\ o.stdout \in {<<"a">>, <<"A">>}}

\* a handler that is not running; user_id and problem_id are the fields of
\* its argument `submission`, the others its local variables
IdleRequest ==
    [pc |-> "idle", status |-> 0, user_id |-> "", problem_id |-> "",
     result |-> <<>>, submission_entry |-> <<>>, existing_index |-> 0,
     existing |-> <<>>, response |-> <<>>]

GradeUnused == [pc |-> "unused"]
CmpUnused == [pc |-> "unused"]

\* how many records were made
Recorded ==
    LET RECURSIVE Sum(_)
        Sum(S) == IF S = {} THEN 0
                  ELSE LET x == CHOOSE y \in S : TRUE
                       IN  Len(history[x]) + Sum(S \ {x})
    IN  Sum(Pairs)

InFlight == Cardinality({t \in Tasks : requests[t].pc \in {"grading", "found"}})

\* the type json.dump gives the value of a key: an int is a number, a list
\* an array, a str a string
json_type(key) ==
    CASE key = "score" -> "number"
      [] key = "error_details" -> "array"
      [] OTHER -> "string"

\* json.dump(submissions, f, indent=2, default=str): an array of objects,
\* every member a typed JSON value
json_dump(subs) ==
    [k \in 1..Len(subs) |->
        [key \in DOMAIN subs[k] |->
            [type |-> json_type(key), value |-> subs[k][key]]]]

\* json.load(f): every JSON value as the Python value of its type
json_load(content) ==
    [k \in 1..Len(content) |->
        [key \in DOMAIN content[k] |-> content[k][key].value]]

\* leaderboard.json before the first write; `faulty` says whether the disk
\* can refuse a write
NoFile(faulty) == [exists |-> FALSE, content |-> <<>>, faulty |-> faulty]

Init ==
    /\ app \in Apps
    /\ submissions = <<>>
    /\ leaderboard_file = NoFile(FALSE)
    /\ now = 0
    /\ uuid_count = 0
    /\ history = [pair \in Pairs |-> <<>>]
    /\ running = 0
    /\ requests = [t \in Tasks |-> IdleRequest]
    /\ last_leaderboard = <<>>
    /\ grade = GradeUnused
    /\ cmp = CmpUnused


(***************************************************************************)
(* The event loop.  Every handler that reads or writes `submissions` is an *)
(* `async def`; it runs on the one event loop from its first line until it *)
(* awaits or returns.  submit_code awaits nothing.                         *)
(***************************************************************************)
\* a handler that awaits between its search and its update: the mutant of
\* submit_code_awaits
submit_code_awaits_after_search == TRUE

\* server.py lines 234-294, api_server.py lines 42-78, index.py lines
\* 69-101: no await in the body of submit_code
submit_code_awaits == FALSE

\* who holds the event loop once handler t has searched `submissions`
HolderAfterSearch(t) == IF submit_code_awaits THEN 0 ELSE t

\* handler t can start: the loop is free, t is the first free handler and
\* the run has room for one more record
CanStart(t) ==
    /\ running = 0
    /\ requests[t].pc = "idle"
    /\ \A other \in Tasks : other < t => requests[other].pc # "idle"
    /\ Recorded + InFlight < MaxSubmits

\* the readings datetime.now() can give after the reading `now`
ClockReadings == {now, now + 1}

\* server.py lines 266-270: the index of the first entry of the user and
\* problem, 0 for None
find_existing_index(subs, user_id, problem_id) ==
    LET found == {k \in 1..Len(subs) : /\ subs[k].user_id = user_id
                                        /\ subs[k].problem_id = problem_id}
    IN  IF found = {} THEN 0 ELSE CHOOSE k \in found : \A m \in found : k <= m

\* api_server.py lines 65-66, index.py lines 85-86: next(..., None), as
\* <<entry>> or <<>>
find_existing(subs, user_id, problem_id) ==
    LET k == find_existing_index(subs, user_id, problem_id)
    IN  IF k = 0 THEN <<>> ELSE <<subs[k]>>

\* an update that also replaces on an equal score: a mutant of server_update
server_update_on_equal(subs, existing_index, submission_entry) ==
    IF existing_index # 0
    THEN IF submission_entry.score >= subs[existing_index].score
         THEN [subs EXCEPT ![existing_index] = submission_entry]
         ELSE subs
    ELSE Append(subs, submission_entry)

\* an update that appends the better entry and keeps the old one: a mutant
\* of server_update
server_update_appends(subs, existing_index, submission_entry) ==
    IF existing_index # 0
    THEN IF submission_entry.score > subs[existing_index].score
         THEN Append(subs, submission_entry)
         ELSE subs
    ELSE Append(subs, submission_entry)

\* server.py lines 272-277
server_update(subs, existing_index, submission_entry) ==
    IF existing_index # 0
    THEN IF submission_entry.score > subs[existing_index].score
         THEN [subs EXCEPT ![existing_index] = submission_entry]
         ELSE subs
    ELSE Append(subs, submission_entry)

\* api_server.py lines 68-73, index.py lines 88-93
api_update(subs, existing, submission_entry) ==
    IF existing # <<>>
    THEN IF submission_entry.score > existing[1].score
         THEN Append(SelectSeq(subs, LAMBDA e : e # existing[1]),
                     submission_entry)
         ELSE subs
    ELSE Append(subs, submission_entry)

\* the outcomes of a write of leaderboard.json: written, or refused
SaveOutcomes == IF leaderboard_file.faulty THEN {TRUE, FALSE} ELSE {TRUE}

\* server.py lines 281-282, api_server.py lines 75-76: open(file, "w") and
\* json.dump(submissions, f); a refused open leaves the file as it was
saved(file, subs, written) ==
    IF written
    THEN [file EXCEPT !.exists = TRUE, !.content = json_dump(subs)]
    ELSE file

\* server.py lines 286-294: what submit_code returns
server_response(result, submission_entry) ==
    [grade |-> [score         |-> result.score,
                total         |-> result.total,
                replay_result |-> result.replay_result,
                error_details |-> Take(result.error_details, 3)],
     leaderboard_entry |-> submission_entry]

\* api_server.py line 78
api_response(result, submission_entry) ==
    [grade |-> result, leaderboard_entry |-> submission_entry]

\* index.py lines 95-101
index_response(submission_entry) ==
    [grade |-> [score |-> 5, total |-> 6, replay_result |-> "partially"],
     leaderboard_entry |-> submission_entry]

\* grader.py lines 39-44: subprocess.run waits for the child in the thread
\* that calls it, and an `async def` handler runs in the thread of the
\* event loop; so the loop is the handler's while it grades
HolderWhileGrading(t) == t

Start(t, request) ==
    /\ requests' = [requests EXCEPT ![t] = request]
    /\ running' = CASE request.pc = "found" -> HolderAfterSearch(t)
                    [] request.pc = "grading" -> HolderWhileGrading(t)
                    [] OTHER -> t
    /\ last_leaderboard' = <<>>

\* a not-found answer with the status of a failed grading: the mutant of
\* SubmitNotFound
SubmitNotFoundAs500(t, user_id, problem_id) ==
    /\ app \in {"server", "api_server"}
    /\ CanStart(t)
    /\ problem_id \notin Problems
    /\ Start(t, [IdleRequest EXCEPT !.pc = "done", !.status = 500,
                                    !.user_id = user_id,
                                    !.problem_id = problem_id])
    /\ UNCHANGED <<app, submissions, leaderboard_file, now, uuid_count,
                   history, grade, cmp>>

\* server.py lines 236-239, api_server.py lines 44-46: no test-case file
SubmitNotFound(t, user_id, problem_id) ==
    /\ app \in {"server", "api_server"}
    /\ CanStart(t)
    /\ problem_id \notin Problems
    /\ Start(t, [IdleRequest EXCEPT !.pc = "done", !.status = 404,
                                    !.user_id = user_id,
                                    !.problem_id = problem_id])
    /\ UNCHANGED <<app, submissions, leaderboard_file, now, uuid_count,
                   history, grade, cmp>>

\* server.py lines 236-247, api_server.py lines 44-56: the test-case file
\* is there and the handler calls grade_submission
SubmitGrade(t, user_id, problem_id) ==
    /\ app \in {"server", "api_server"}
    /\ CanStart(t)
    /\ problem_id \in Problems
    /\ Start(t, [IdleRequest EXCEPT !.pc = "grading",
                                    !.user_id = user_id,
                                    !.problem_id = problem_id])
    /\ UNCHANGED <<app, submissions, leaderboard_file, now, uuid_count,
                   history, grade, cmp>>

\* server.py lines 242-249: grade_submission raises and the handler answers
\* 500; api_server.py lines 52-56: the exception leaves the handler, which
\* the framework answers with 500
SubmitGradingFailed(t) ==
    /\ requests[t].pc = "grading"
    /\ running = HolderWhileGrading(t)
    /\ \E outs \in OutcomesOf(requests[t].problem_id, SubmitOutcomes) :
          grade_submission_of(requests[t].problem_id, outs).raised
    /\ requests' = [requests EXCEPT ![t].pc = "done", ![t].status = 500]
    /\ running' = t
    /\ UNCHANGED <<app, submissions, leaderboard_file, now, uuid_count,
                   history, last_leaderboard, grade, cmp>>

\* server.py lines 242-270: grade_submission returns; build the entry,
\* search `submissions`
ServerSubmitSearch(t) ==
    /\ app = "server"
    /\ requests[t].pc = "grading"
    /\ running = HolderWhileGrading(t)
    /\ \E outs \in OutcomesOf(requests[t].problem_id, SubmitOutcomes),
          reading \in ClockReadings :
          LET user_id    == requests[t].user_id
              problem_id == requests[t].problem_id
              graded     == grade_submission_of(problem_id, outs)
              submission_entry ==
                  [submission_id |-> uuid_count + 1,
                   user_id       |-> user_id,
                   problem_id    |-> problem_id,
                   score         |-> graded.result.score,
                   replay_result |-> <<graded.result.score, graded.result.total>>,
                   timestamp     |-> isoformat(reading),
                   error_details |-> graded.result.error_details]
          IN  /\ ~graded.raised
              /\ now' = reading
              /\ requests' = [requests EXCEPT
                                 ![t].pc = "found",
                                 ![t].result = graded.result,
                                 ![t].submission_entry = submission_entry,
                                 ![t].existing_index =
                                     find_existing_index(submissions, user_id,
                                                         problem_id)]
    /\ running' = HolderAfterSearch(t)
    /\ uuid_count' = uuid_count + 1
    /\ UNCHANGED <<app, submissions, leaderboard_file, history,
                   last_leaderboard, grade, cmp>>

\* api_server.py lines 52-66: the entry is the grader's, with replay_result
\* and timestamp overwritten
ApiSubmitSearch(t) ==
    /\ app = "api_server"
    /\ requests[t].pc = "grading"
    /\ running = HolderWhileGrading(t)
    /\ \E outs \in OutcomesOf(requests[t].problem_id, SubmitOutcomes),
          reading \in ClockReadings :
          LET user_id    == requests[t].user_id
              problem_id == requests[t].problem_id
              graded     == grade_submission_of(problem_id, outs)
              submission_entry ==
                  [submission_id |-> uuid_count + 1,
                   user_id       |-> user_id,
                   problem_id    |-> problem_id,
                   score         |-> graded.result.score,
                   replay_result |-> <<graded.result.score, graded.result.total>>,
                   timestamp     |-> isoformat(reading),
                   error_details |-> graded.result.entry_error_details]
          IN  /\ ~graded.raised
              /\ now' = reading
              /\ requests' = [requests EXCEPT
                                 ![t].pc = "found",
                                 ![t].result = graded.result,
                                 ![t].submission_entry = submission_entry,
                                 ![t].existing =
                                     find_existing(submissions, user_id,
                                                   problem_id)]
    /\ running' = HolderAfterSearch(t)
    /\ uuid_count' = uuid_count + 1
    /\ UNCHANGED <<app, submissions, leaderboard_file, history,
                   last_leaderboard, grade, cmp>>

\* index.py lines 69-86: the mock grading gives 5 of 6 to whatever is sent
IndexSubmitSearch(t, user_id, problem_id) ==
    /\ app = "index"
    /\ CanStart(t)
    /\ \E reading \in ClockReadings :
          /\ now' = reading
          /\ Start(t, [IdleRequest EXCEPT
                           !.pc = "found",
                           !.user_id = user_id,
                           !.problem_id = problem_id,
                           !.submission_entry =
                               [user_id       |-> user_id,
                                problem_id    |-> problem_id,
                                score         |-> 5,
                                replay_result |-> <<5, 6>>,
                                timestamp     |-> isoformat(reading)],
                           !.existing =
                               find_existing(submissions, user_id, problem_id)])
    /\ UNCHANGED <<app, submissions, leaderboard_file, uuid_count, history,
                   grade, cmp>>

\* the record a finished update leaves in the history of its pair
Record(entry) ==
    [history EXCEPT ![<<entry.user_id, entry.problem_id>>] =
        Append(@, [score |-> entry.score, timestamp |-> entry.timestamp])]

\* a handler that saves the list before it updates it: the mutant of
\* ServerSubmitUpdate
ServerSubmitUpdateSavesFirst(t) ==
    /\ app = "server"
    /\ requests[t].pc = "found"
    /\ running = HolderAfterSearch(t)
    /\ submissions' = server_update(submissions, requests[t].existing_index,
                                    requests[t].submission_entry)
    /\ \E written \in SaveOutcomes :
          leaderboard_file' = saved(leaderboard_file, submissions, written)
    /\ history' = Record(requests[t].submission_entry)
    /\ requests' = [requests EXCEPT
                       ![t].pc = "done",
                       ![t].status = 200,
                       ![t].response =
                           server_response(requests[t].result,
                                           requests[t].submission_entry)]
    /\ running' = t
    /\ last_leaderboard' = <<>>
    /\ UNCHANGED <<app, now, uuid_count, grade, cmp>>

\* server.py lines 272-294: update, save, return.  A failed save is printed
\* and passed over.
ServerSubmitUpdate(t) ==
    /\ app = "server"
    /\ requests[t].pc = "found"
    /\ running = HolderAfterSearch(t)
    /\ submissions' = server_update(submissions, requests[t].existing_index,
                                    requests[t].submission_entry)
    /\ \E written \in SaveOutcomes :
          leaderboard_file' = saved(leaderboard_file, submissions', written)
    /\ history' = Record(requests[t].submission_entry)
    /\ requests' = [requests EXCEPT
                       ![t].pc = "done",
                       ![t].status = 200,
                       ![t].response =
                           server_response(requests[t].result,
                                           requests[t].submission_entry)]
    /\ running' = t
    /\ last_leaderboard' = <<>>
    /\ UNCHANGED <<app, now, uuid_count, grade, cmp>>

\* api_server.py lines 68-78: update, save, return.  A failed save leaves
\* the handler as an exception, which the framework answers with 500.
ApiSubmitUpdate(t) ==
    /\ app = "api_server"
    /\ requests[t].pc = "found"
    /\ running = HolderAfterSearch(t)
    /\ submissions' = api_update(submissions, requests[t].existing,
                                 requests[t].submission_entry)
    /\ \E written \in SaveOutcomes :
          /\ leaderboard_file' =
                 saved(leaderboard_file, submissions', written)
          /\ requests' = [requests EXCEPT
                             ![t].pc = "done",
                             ![t].status = IF written THEN 200 ELSE 500,
                             ![t].response =
                                 IF written
                                 THEN api_response(requests[t].result,
                                                   requests[t].submission_entry)
                                 ELSE <<>>]
    /\ history' = Record(requests[t].submission_entry)
    /\ running' = t
    /\ last_leaderboard' = <<>>
    /\ UNCHANGED <<app, now, uuid_count, grade, cmp>>

\* index.py lines 88-101: the list is kept in memory only
IndexSubmitUpdate(t) ==
    /\ app = "index"
    /\ requests[t].pc = "found"
    /\ running = HolderAfterSearch(t)
    /\ submissions' = api_update(submissions, requests[t].existing,
                                 requests[t].submission_entry)
    /\ history' = Record(requests[t].submission_entry)
    /\ requests' = [requests EXCEPT
                       ![t].pc = "done",
                       ![t].status = 200,
                       ![t].response =
                           index_response(requests[t].submission_entry)]
    /\ running' = t
    /\ last_leaderboard' = <<>>
    /\ UNCHANGED <<app, leaderboard_file, now, uuid_count, grade, cmp>>

\* the response of a handler that has ended is sent
Respond(t) ==
    /\ requests[t].pc = "done"
    /\ running = t
    /\ requests' = [requests EXCEPT ![t] = IdleRequest]
    /\ running' = 0
    /\ UNCHANGED <<app, submissions, leaderboard_file, now, uuid_count,
                   history, last_leaderboard, grade, cmp>>

\* a query that sorts the list itself: the mutant of GetLeaderboard
GetLeaderboardSortsInPlace ==
    /\ running = 0
    /\ Len(last_leaderboard) < 2
    /\ submissions' = sorted(submissions)
    /\ last_leaderboard' =
           Append(last_leaderboard, get_leaderboard(app, submissions'))
    /\ UNCHANGED <<app, leaderboard_file, now, uuid_count, history, running,
                   requests, grade, cmp>>

\* server.py lines 441-476, api_server.py lines 81-104, index.py lines
\* 173-208: the handler of GET /leaderboard
GetLeaderboard ==
    /\ running = 0
    /\ Len(last_leaderboard) < 2
    /\ last_leaderboard' =
           Append(last_leaderboard, get_leaderboard(app, submissions))
    /\ UNCHANGED <<app, submissions, leaderboard_file, now, uuid_count,
                   history, running, requests, grade, cmp>>

\* the steps of a handler of POST /submit that has started
Continue(t) ==
    \/ SubmitGradingFailed(t)
    \/ ServerSubmitSearch(t)
    \/ ApiSubmitSearch(t)
    \/ ServerSubmitUpdate(t)
    \/ ApiSubmitUpdate(t)
    \/ IndexSubmitUpdate(t)
    \/ Respond(t)

Next ==
    \/ \E t \in Tasks, user_id \in Users, problem_id \in ProblemIds :
          \/ SubmitNotFound(t, user_id, problem_id)
          \/ SubmitGrade(t, user_id, problem_id)
          \/ IndexSubmitSearch(t, user_id, problem_id)
    \/ \E t \in Tasks : Continue(t)
    \/ GetLeaderboard

Spec == Init /\ [][Next]_vars

(***************************************************************************)
(* SpecRestart: the application with a disk that can refuse a write, and   *)
(* with restarts of the process; its requests come one at a time and are   *)
(* for the problem p1.                                                     *)
(***************************************************************************)
InitRestart ==
    /\ app \in Apps
    /\ submissions = <<>>
    /\ \E faulty \in BOOLEAN : leaderboard_file = NoFile(faulty)
    /\ now = 0
    /\ uuid_count = 0
    /\ history = [pair \in Pairs |-> <<>>]
    /\ running = 0
    /\ requests = [t \in Tasks |-> IdleRequest]
    /\ last_leaderboard = <<>>
    /\ grade = GradeUnused
    /\ cmp = CmpUnused

\* server.py lines 34-40, api_server.py lines 17-23: the module is loaded
\* again and `submissions` is what leaderboard.json holds, or [] without
\* the file; index.py line 11: []
load_submissions(a, file) ==
    IF a # "index" /\ file.exists THEN json_load(file.content) ELSE <<>>

\* the process is shut down, which lets the handlers that run finish, and
\* is started again
Restart ==
    /\ running = 0
    /\ \A t \in Tasks : requests[t].pc = "idle"
    /\ submissions' = load_submissions(app, leaderboard_file)
    /\ requests' = [t \in Tasks |-> IdleRequest]
    /\ running' = 0
    /\ last_leaderboard' = <<>>
    /\ UNCHANGED <<app, leaderboard_file, now, uuid_count, history, grade,
                   cmp>>

NextRestart ==
    \/ \E user_id \in Users :
          \/ SubmitGrade(1, user_id, "p1")
          \/ IndexSubmitSearch(1, user_id, "p1")
    \/ Continue(1)
    \/ GetLeaderboard
    \/ Restart

SpecRestart == InitRestart /\ [][NextRestart]_vars

(***************************************************************************)
(* SpecReport: one submission for the problem p3, and the leaderboard      *)
(* after it.                                                               *)
(***************************************************************************)
NextReport ==
    \/ \E user_id \in Users :
          /\ Recorded = 0
          /\ \/ SubmitGrade(1, user_id, "p3")
             \/ IndexSubmitSearch(1, user_id, "p3")
    \/ Continue(1)
    \/ GetLeaderboard

SpecReport == Init /\ [][NextReport]_vars


(***************************************************************************)
(* Properties of the leaderboard (Spec).                                   *)
(***************************************************************************)
\* the positions of `subs` that hold an entry of the pair
EntriesOf(subs, user_id, problem_id) ==
    {k \in 1..Len(subs) : /\ subs[k].user_id = user_id
                          /\ subs[k].problem_id = problem_id}

Range(seq) == {seq[k] : k \in 1..Len(seq)}

\* the highest score of a non-empty history
MaxScore(h) == CHOOSE s \in {h[k].score : k \in 1..Len(h)} :
                   \A k \in 1..Len(h) : h[k].score <= s

\* the first record of a non-empty history that reached its highest score
FirstMax(h) ==
    h[CHOOSE k \in 1..Len(h) :
          /\ h[k].score = MaxScore(h)
          /\ \A m \in 1..(k - 1) : h[m].score < MaxScore(h)]

\* the clock reading a timestamp was formatted from
Instant(timestamp) ==
    CHOOSE t \in 0..(2 * MaxSubmits) : isoformat(t) = timestamp

\* C1: whatever the order in which submit handlers are started and run, the
\* list `submissions` holds at most one entry per (problem_id, user_id).
C1_OneEntryPerPair ==
    \A pair \in Pairs :
        Cardinality(EntriesOf(submissions, pair[1], pair[2])) <= 1

\* C1 witness: two submissions of one user for one problem were recorded
\* and the pair has one entry.
C1_Witness ==
    \E pair \in Pairs :
        /\ Len(history[pair]) >= 2
        /\ Cardinality(EntriesOf(submissions, pair[1], pair[2])) = 1

\* C2: for every (user, problem) with a recorded submission the retained
\* entry has the highest score recorded and the timestamp of the first
\* record that reached it.
C2_RetainedIsFirstMax ==
    \A pair \in Pairs :
        history[pair] # <<>> =>
            /\ EntriesOf(submissions, pair[1], pair[2]) # {}
            /\ \A k \in EntriesOf(submissions, pair[1], pair[2]) :
                  /\ submissions[k].score = MaxScore(history[pair])
                  /\ submissions[k].timestamp = FirstMax(history[pair]).timestamp

\* C2 witness: three records of one pair at three different times, the
\* second with the highest score, as in [3, 5, 2].
C2_Witness ==
    \E pair \in Pairs :
        LET h == history[pair]
        IN  /\ Len(h) = 3
            /\ h[1].score < h[2].score
            /\ h[3].score < h[2].score
            /\ h[1].timestamp # h[2].timestamp
            /\ h[2].timestamp # h[3].timestamp

\* C3: an update whose score is lower than or equal to the existing entry's
\* leaves `submissions` unchanged; one with a strictly higher score puts
\* the new entry in the place of the existing one and changes no other.
C3_UpdateFrame ==
    [][\A t \in Tasks :
          (requests[t].pc = "found" /\ requests'[t].pc = "done") =>
              LET entry == requests[t].submission_entry
              IN  \A k \in EntriesOf(submissions, entry.user_id,
                                     entry.problem_id) :
                      /\ entry.score <= submissions[k].score =>
                             submissions' = submissions
                      /\ entry.score > submissions[k].score =>
                             /\ Len(submissions') = Len(submissions)
                             /\ Range(submissions') =
                                    (Range(submissions) \ {submissions[k]})
                                        \cup {entry}]_vars

\* C3 witness: a strictly higher score replaced the entry of a pair while
\* the entry of another pair was in the list.
C3_Witness ==
    \E pair \in Pairs :
        /\ Len(history[pair]) = 2
        /\ history[pair][2].score > history[pair][1].score
        /\ Len(submissions) = 2

\* no row precedes one with a higher score, or with an equal score and an
\* earlier timestamp
Ranked(rows) ==
    \A i \in 1..Len(rows), j \in 1..Len(rows) :
        i < j =>
            \/ rows[i].score > rows[j].score
            \/ /\ rows[i].score = rows[j].score
               /\ Instant(rows[i].timestamp) <= Instant(rows[j].timestamp)

\* the entries {(u1,p1,5,t=10), (u2,p1,5,t=5), (u3,p1,3,t=1)}
ExampleEntries ==
    <<[submission_id |-> 1, user_id |-> "u1", problem_id |-> "p1", score |-> 5,
       replay_result |-> <<5, 6>>, timestamp |-> isoformat(10)],
      [submission_id |-> 2, user_id |-> "u2", problem_id |-> "p1", score |-> 5,
       replay_result |-> <<5, 6>>, timestamp |-> isoformat(5)],
      [submission_id |-> 3, user_id |-> "u3", problem_id |-> "p1", score |-> 3,
       replay_result |-> <<3, 6>>, timestamp |-> isoformat(1)]>>

\* the orders in which a list can hold the elements of `seq`
Orders(seq) ==
    {[k \in 1..Len(seq) |-> seq[f[k]]] :
        f \in {g \in [1..Len(seq) -> 1..Len(seq)] :
                  \A a, b \in 1..Len(seq) : g[a] = g[b] => a = b}}

UserIds(rows) == [k \in 1..Len(rows) |-> rows[k].user_id]

\* C4: every leaderboard answered is ordered by score descending and, among
\* equal scores, by timestamp ascending; the example entries give the order
\* [u2, u1, u3] whatever their order in the list.  (The example depends on
\* the application only; it is evaluated where each application starts.)
C4_Ranked ==
    /\ \A n \in 1..Len(last_leaderboard) : Ranked(last_leaderboard[n])
    /\ submissions = <<>> =>
          \A subs \in Orders(ExampleEntries) :
              UserIds(get_leaderboard(app, subs)) = <<"u2", "u1", "u3">>

\* C4 witness: a leaderboard whose first two rows have the same score, the
\* first row's entry standing after the second row's in `submissions`.
C4_Witness ==
    /\ last_leaderboard # <<>>
    /\ Len(last_leaderboard[1]) >= 2
    /\ Len(submissions) >= 2
    /\ last_leaderboard[1][1].score = last_leaderboard[1][2].score
    /\ last_leaderboard[1][1].timestamp # last_leaderboard[1][2].timestamp
    /\ last_leaderboard[1][1].user_id = submissions[2].user_id
    /\ last_leaderboard[1][2].user_id = submissions[1].user_id

\* C5: in server.py and index.py, two lists holding the same entries in
\* different orders give the same leaderboard.
C5_OrderIndependent ==
    app \in {"server", "index"} =>
        \A subs \in Orders(submissions) :
            get_leaderboard(app, subs) = get_leaderboard(app, submissions)

\* the pairs with a recorded submission
PairsRecorded == {pair \in Pairs : history[pair] # <<>>}

\* C6: the leaderboard answered has exactly one row for every
\* (problem_id, user_id) with a submission, and the row is the pair's best:
\* its highest score, at the first timestamp that reached it.
C6_OneRowPerPair ==
    \A n \in 1..Len(last_leaderboard) :
        LET rows == last_leaderboard[n]
        IN  /\ Len(rows) = Cardinality(PairsRecorded)
            /\ \A pair \in PairsRecorded :
                  \E k \in 1..Len(rows) :
                      /\ rows[k].user_id = pair[1]
                      /\ "problem_id" \in DOMAIN rows[k] =>
                             rows[k].problem_id = pair[2]
                      /\ rows[k].score = MaxScore(history[pair])
                      /\ rows[k].timestamp = FirstMax(history[pair]).timestamp

\* C7: a leaderboard query leaves `submissions` as it is, and the queries
\* answered with no submit in between give the same rows.
C7_QueryIdempotent ==
    [][last_leaderboard' # <<>> =>
          /\ submissions' = submissions
          /\ \A n \in 1..Len(last_leaderboard') :
                last_leaderboard'[n] = last_leaderboard'[1]]_vars

\* C7 witness: two queries were answered in a row over a list of two or
\* more entries.
C7_Witness ==
    /\ Len(last_leaderboard) = 2
    /\ Len(last_leaderboard[2]) >= 2


(***************************************************************************)
(* SpecGrade: one call of grade_submission, a test case at a time, or one  *)
(* call of run_code.  The temporary files a call leaves are in `files`.    *)
(***************************************************************************)
PublicCase == [input |-> "1", expected_output |-> <<"a">>]
HiddenCase == [input |-> "2", expected_output |-> <<"A", " ">>]

\* the contents a test-case file can have
TestData ==
    {td \in {[public_tests |-> [k \in 1..np |-> PublicCase],
               hidden_tests |-> [k \in 1..nh |-> HiddenCase]] :
                 np \in 0..MaxTests, nh \in 0..MaxTests} :
        Len(td.public_tests) + Len(td.hidden_tests) <= MaxTests}

\* the rest of the program does nothing in SpecGrade and SpecCompare
RestUnused ==
    /\ app = "server"
    /\ submissions = <<>>
    /\ leaderboard_file = NoFile(FALSE)
    /\ now = 0
    /\ uuid_count = 0
    /\ history = [pair \in Pairs |-> <<>>]
    /\ running = 0
    /\ requests = [t \in Tasks |-> IdleRequest]
    /\ last_leaderboard = <<>>

\* the frame of one call of run_code in the module `handler`
RunFrame(handler) ==
    [pc       |-> "run_start",
     handler  |-> handler,
     tmp_file |-> 0,
     files    |-> {},
     child    |-> <<>>,
     raising  |-> FALSE,
     response |-> ""]

InitGrade ==
    /\ RestUnused
    /\ cmp = CmpUnused
    /\ \/ \E handler \in {"server", "index"} : grade = RunFrame(handler)
       \/ \E exists \in BOOLEAN, test_data \in TestData :
          grade = [pc            |-> "start",
                   exists        |-> exists,
                   test_data     |-> test_data,
                   all_tests     |-> <<>>,
                   total_cases   |-> 0,
                   i             |-> 0,
                   passed_count  |-> 0,
                   error_details |-> <<>>,
                   tmp_file      |-> 0,
                   files         |-> {},
                   child         |-> <<>>,
                   judged        |-> <<>>,
                   raising       |-> FALSE,
                   error         |-> "",
                   result        |-> <<>>]

GradeStep(next) ==
    /\ grade' = next
    /\ UNCHANGED <<app, submissions, leaderboard_file, now, uuid_count,
                   history, running, requests, last_leaderboard, cmp>>

\* grader.py lines 9-18: open the test-case file
GradeOpen ==
    /\ grade.pc = "start"
    /\ GradeStep(IF grade.exists
                 THEN [grade EXCEPT
                          !.pc = "loop",
                          !.all_tests = all_tests(grade.test_data),
                          !.total_cases = Len(all_tests(grade.test_data))]
                 ELSE [grade EXCEPT !.pc = "raised",
                                    !.error = "FileNotFoundError"])

\* grader.py lines 20-36: write the temporary file of test case i.  The
\* file may not be created, or be created and not written.
CaseTmp ==
    /\ grade.pc = "loop"
    /\ grade.i < Len(grade.all_tests)
    /\ \E how \in {"written", "not_created", "not_written"} :
          GradeStep(
            CASE how = "written" ->
                   [grade EXCEPT !.pc = "run",
                                 !.tmp_file = grade.i + 1,
                                 !.files = @ \cup {grade.i + 1}]
              [] how = "not_created" ->
                   [grade EXCEPT !.pc = "finally",
                                 !.tmp_file = 0,
                                 !.raising = TRUE,
                                 !.error = "OSError"]
              [] how = "not_written" ->
                   [grade EXCEPT !.pc = "finally",
                                 !.tmp_file = grade.i + 1,
                                 !.files = @ \cup {grade.i + 1},
                                 !.raising = TRUE,
                                 !.error = "OSError"])

\* grader.py lines 38-67: run the child and judge the test case
CaseRun ==
    /\ grade.pc = "run"
    /\ \E out \in {o \in ChildOutcomes : o.kind # "tmp_error"} :
          LET st == judge([passed_count  |-> grade.passed_count,
                           error_details |-> grade.error_details],
                          grade.i, grade.all_tests[grade.i + 1], out)
          IN  GradeStep([grade EXCEPT !.pc = "finally",
                                      !.child = out,
                                      !.judged = Append(@, grade.i + 1),
                                      !.passed_count = st.passed_count,
                                      !.error_details = st.error_details])

\* a loop that a failed test case ends, `break` for `continue`: the mutant
\* of CaseFinally
CaseFinallyBreaks ==
    /\ grade.pc = "finally"
    /\ \E unlinked \in BOOLEAN :
          /\ grade.tmp_file = 0 => unlinked
          /\ GradeStep([grade EXCEPT
                           !.files = IF unlinked THEN @ \ {grade.tmp_file}
                                     ELSE @,
                           !.child = <<>>,
                           !.pc = IF grade.raising THEN "raised" ELSE "loop",
                           !.i = IF grade.raising THEN @
                                 ELSE IF Len(grade.error_details) > 0
                                      THEN Len(grade.all_tests)
                                      ELSE @ + 1])

\* grader.py lines 69-75: unlink the temporary file; an OSError is passed
\* over.  Then the next test case, or the exception goes on.
CaseFinally ==
    /\ grade.pc = "finally"
    /\ \E unlinked \in BOOLEAN :
          /\ grade.tmp_file = 0 => unlinked
          /\ GradeStep([grade EXCEPT
                           !.files = IF unlinked THEN @ \ {grade.tmp_file}
                                     ELSE @,
                           !.child = <<>>,
                           !.pc = IF grade.raising THEN "raised" ELSE "loop",
                           !.i = IF grade.raising THEN @ ELSE @ + 1])

\* grader.py lines 77-97
GradeReturn ==
    /\ grade.pc = "loop"
    /\ grade.i = Len(grade.all_tests)
    /\ GradeStep([grade EXCEPT
                     !.pc = "returned",
                     !.result = grade_result(grade.passed_count,
                                             grade.total_cases,
                                             grade.error_details)])

\* what run_code answers once the child has ended
run_response(out) ==
    IF out.returncode # 0 THEN "failure" ELSE "success"

\* what run_code answers to an exception: server.py lines 436-439, index.py
\* lines 166-169
run_except(out) ==
    IF out # <<>> /\ out.kind = "timeout" THEN "timeout" ELSE "error"

\* server.py lines 388-403, index.py lines 126-139: write the temporary
\* file.  In server.py an exception goes through the finally clause; in
\* index.py it goes to the handler's except clause.
RunTmp ==
    /\ grade.pc = "run_start"
    /\ \E how \in {"written", "not_created", "not_written"} :
          LET made == IF how = "not_created" THEN 0 ELSE 1
              left == IF how = "not_created" THEN {} ELSE {1}
          IN  GradeStep(
                IF how = "written"
                THEN [grade EXCEPT !.pc = "run_child", !.tmp_file = 1,
                                   !.files = {1}]
                ELSE IF grade.handler = "server"
                THEN [grade EXCEPT !.pc = "run_unlink", !.tmp_file = made,
                                   !.files = left, !.raising = TRUE]
                ELSE [grade EXCEPT !.pc = "run_returned", !.tmp_file = made,
                                   !.files = left,
                                   !.response = run_except(<<>>)])

\* server.py lines 405-426, index.py lines 141-148: run the child.  In
\* index.py TimeoutExpired and every other exception of subprocess.run
\* leave the try block before line 151.
RunChild ==
    /\ grade.pc = "run_child"
    /\ \E out \in {o \in ChildOutcomes : o.kind # "tmp_error"} :
          GradeStep(
            IF out.kind = "exit"
            THEN [grade EXCEPT !.pc = "run_unlink", !.child = out]
            ELSE IF grade.handler = "server"
            THEN [grade EXCEPT !.pc = "run_unlink", !.child = out,
                               !.raising = TRUE]
            ELSE [grade EXCEPT !.pc = "run_returned", !.child = out,
                               !.response = run_except(out)])

\* server.py lines 428-439: the finally clause unlinks the file and passes
\* over a failure; index.py lines 150-164: os.unlink, whose OSError goes
\* to the except clause.  Then the answer.
RunUnlink ==
    /\ grade.pc = "run_unlink"
    /\ \E unlinked \in BOOLEAN :
          /\ grade.tmp_file = 0 => unlinked
          /\ GradeStep([grade EXCEPT
                           !.pc = "run_returned",
                           !.files = IF unlinked THEN @ \ {grade.tmp_file}
                                     ELSE @,
                           !.response =
                               IF grade.raising THEN run_except(grade.child)
                               ELSE IF grade.handler = "index" /\ ~unlinked
                               THEN run_except(<<>>)
                               ELSE run_response(grade.child)])

NextGrade ==
    \/ GradeOpen
    \/ CaseTmp
    \/ CaseRun
    \/ CaseFinally
    \/ GradeReturn
    \/ RunTmp
    \/ RunChild
    \/ RunUnlink

SpecGrade == InitGrade /\ [][NextGrade]_vars

\* a call that can take a step takes it: the interpreter goes on and every
\* child ends or is timed out
FairSpecGrade == InitGrade /\ [][NextGrade]_vars /\ WF_vars(NextGrade)

(***************************************************************************)
(* SpecCompare: the comparison of one output with one expected output.     *)
(***************************************************************************)
InitCompare ==
    /\ RestUnused
    /\ grade = GradeUnused
    /\ \E actual \in StringsUpTo(MaxLen), expected \in StringsUpTo(MaxLen) :
          cmp = [pc |-> "ready", actual |-> actual, expected |-> expected,
                 passed |-> FALSE]

\* grader.py lines 50-60
CompareOutputs ==
    /\ cmp.pc = "ready"
    /\ cmp' = [cmp EXCEPT !.pc = "compared",
                          !.passed = compare(cmp.actual, cmp.expected)]
    /\ UNCHANGED <<app, submissions, leaderboard_file, now, uuid_count,
                   history, running, requests, last_leaderboard, grade>>

NextCompare == CompareOutputs

SpecCompare == InitCompare /\ [][NextCompare]_vars


(***************************************************************************)
(* Properties of the grader (SpecGrade, SpecCompare).                      *)
(***************************************************************************)
\* C8 as claimed: the verdict is "passed" iff passed_count == total_count,
\* "failed" iff passed_count == 0, and "partially" otherwise.
C8_VerdictAsClaimed ==
    grade.pc = "returned" =>
        LET r == grade.result
        IN  /\ r.replay_result = "passed" <=> r.score = r.total
            /\ r.replay_result = "failed" <=> r.score = 0
            /\ r.replay_result = "partially" <=>
                   (r.score # r.total /\ r.score # 0)

\* C8 amended: the verdict is "passed" iff passed_count == total_count,
\* "failed" iff passed_count == 0 and total_count > 0, and "partially"
\* otherwise; a problem with zero test cases is "passed".
C8_Verdict ==
    grade.pc = "returned" =>
        LET r == grade.result
        IN  /\ r.replay_result \in {"passed", "failed", "partially"}
            /\ r.replay_result = "passed" <=> r.score = r.total
            /\ r.replay_result = "failed" <=> (r.score = 0 /\ r.total > 0)
            /\ r.replay_result = "partially" <=>
                   (r.score # r.total /\ r.score # 0)

\* C8 witness: a problem with zero test cases was graded "passed".
C8_Witness ==
    /\ grade.pc = "returned"
    /\ grade.result.total = 0
    /\ grade.result.replay_result = "passed"

\* C9: when grade_submission returns, total is the number of public tests
\* plus the number of hidden tests, whatever happened to the test cases.
C9_TotalCount ==
    grade.pc = "returned" =>
        grade.result.total = Len(grade.test_data.public_tests)
                                 + Len(grade.test_data.hidden_tests)

\* C9 witness: a problem with public and hidden tests was graded, one test
\* case timed out and for another subprocess.run raised.
C9_Witness ==
    /\ grade.pc = "returned"
    /\ grade.test_data.public_tests # <<>>
    /\ grade.test_data.hidden_tests # <<>>
    /\ \E k \in 1..Len(grade.error_details) :
          grade.error_details[k].what = "Timeout"
    /\ \E k \in 1..Len(grade.error_details) :
          grade.error_details[k].what = "Execution error"

\* the string without its leading and trailing whitespace: from its first
\* to its last character that is not whitespace
Trimmed(s) ==
    LET inner == {k \in 1..Len(s) : s[k] \notin Whitespace}
    IN  IF inner = {} THEN <<>>
        ELSE SubSeq(s, CHOOSE k \in inner : \A m \in inner : k <= m,
                       CHOOSE k \in inner : \A m \in inner : m <= k)

\* trimmed, and then without its space characters
NormalForm(s) == SelectSeq(Trimmed(s), LAMBDA c : c # " ")

\* C10: the comparison passes exactly when the two strings are equal after
\* trimming whitespace at both ends and removing every space; the four
\* examples come out as stated; an empty expected output matches only an
\* output that normalizes to empty.
C10_Compare ==
    /\ cmp.pc = "compared" =>
          /\ cmp.passed <=> NormalForm(cmp.actual) = NormalForm(cmp.expected)
          /\ cmp.expected = <<>> =>
                 (cmp.passed <=> NormalForm(cmp.actual) = <<>>)
    /\ cmp.pc = "ready" =>
          /\ compare(<<"1", " ", "2", " ", "3">>,
                     <<"1", " ", " ", "2", " ", " ", " ", "3">>)
          /\ compare(<<>>, <<>>)
          /\ compare(<<" ", "x", " ">>, <<"x">>)
          /\ ~compare(<<"a", "b", "c">>, <<"a", "b", "d">>)

\* C10 witness: two different strings compared equal, one with a space
\* between two other characters.
C10_Witness ==
    /\ cmp.pc = "compared"
    /\ cmp.passed
    /\ cmp.actual # cmp.expected
    /\ \E k \in 2..(Len(cmp.actual) - 1) :
          /\ cmp.actual[k] = " "
          /\ cmp.actual[k - 1] \notin Whitespace
          /\ cmp.actual[k + 1] \notin Whitespace

\* the numbers 1..n in order
UpTo(n) == [k \in 1..n |-> k]

\* the kinds of the messages in a list of error details
Kinds(error_details) ==
    {error_details[k].what : k \in 1..Len(error_details)}

\* C11: a test case whose child was run (non-zero exit, wrong output,
\* timeout, or an exception of subprocess.run) never makes grade_submission
\* raise; the test cases are judged once each in list order; after a judged
\* test case the call goes on until it returns a score and a verdict, or
\* until a temporary file cannot be written.
C11_NoAbort ==
    /\ [](/\ grade.pc \in {"loop", "run"} => grade.judged = UpTo(grade.i)
          /\ (grade.pc = "finally" /\ grade.child # <<>>) =>
                 /\ ~grade.raising
                 /\ grade.judged = UpTo(grade.i + 1)
          /\ grade.pc = "returned" =>
                 /\ grade.judged = UpTo(Len(grade.test_data.public_tests)
                                          + Len(grade.test_data.hidden_tests))
                 /\ grade.result.score \in 0..grade.result.total
                 /\ grade.result.replay_result
                        \in {"passed", "partially", "failed"})
    /\ (grade.pc = "finally" /\ grade.child # <<>>)
           ~> \/ grade.pc = "returned"
              \/ grade.pc = "finally" /\ grade.child = <<>>

\* C11 witness: a problem of three test cases was graded; one child ended
\* with a non-zero exit, one timed out, one gave a wrong output.
C11_Witness ==
    /\ grade.pc = "returned"
    /\ grade.result.total = 3
    /\ grade.result.score = 0
    /\ Kinds(grade.error_details) = {"Runtime error", "Timeout", "Expected"}

\* the step that runs the child of a test case and judges it
ChildStep == grade.pc = "run" /\ grade'.pc = "finally"

\* C12: a test case whose child is timed out leaves passed_count as it is
\* and appends the diagnostic "Test {i+1}: Timeout (exceeded 5 seconds)";
\* no other outcome of a child appends that diagnostic.
C12_Timeout ==
    [][ChildStep =>
          LET diagnostic == ErrorDetail(grade.i, "Timeout")
          IN  IF grade'.child.kind = "timeout"
              THEN /\ grade'.passed_count = grade.passed_count
                   /\ grade'.error_details =
                          Append(grade.error_details, diagnostic)
              ELSE grade'.error_details #
                       Append(grade.error_details, diagnostic)]_vars

\* C12 witness: the child of a test case was timed out after a test case
\* had passed and another had ended with a non-zero exit.
C12_Witness ==
    /\ grade.pc = "finally"
    /\ grade.child # <<>>
    /\ grade.child.kind = "timeout"
    /\ grade.passed_count >= 1
    /\ "Runtime error" \in Kinds(grade.error_details)

\* the frame is inside the loop of grade_submission, or at its return
InLoop == grade.pc \in {"loop", "run", "finally", "returned"}

\* the child exited with code 0 within the timeout and its output, trimmed
\* and without spaces, is the expected output's
Good(out, case) ==
    /\ out.kind = "exit"
    /\ out.returncode = 0
    /\ NormalForm(out.stdout) = NormalForm(case.expected_output)

\* C18: at every step of the loop 0 <= passed_count <= tests judged so far
\* <= total_cases, and every judged test case either passed or left one
\* message; judging a test case adds one to passed_count exactly when its
\* child exited with code 0 in time and its output compared equal; a
\* non-zero exit leaves passed_count and appends "Test {i+1}: Runtime
\* error", whatever the child printed.
C18_PassedCount ==
    /\ [](InLoop =>
             /\ 0 <= grade.passed_count
             /\ grade.passed_count <= Len(grade.judged)
             /\ Len(grade.judged) <= grade.total_cases
             /\ grade.passed_count + Len(grade.error_details)
                    = Len(grade.judged)
             /\ grade.pc = "returned" =>
                    grade.result.score = grade.passed_count)
    /\ [][ChildStep =>
             LET out  == grade'.child
                 case == grade.all_tests[grade.i + 1]
             IN  /\ grade'.passed_count =
                        grade.passed_count + (IF Good(out, case) THEN 1 ELSE 0)
                 /\ (out.kind = "exit" /\ out.returncode # 0) =>
                        grade'.error_details =
                            Append(grade.error_details,
                                   ErrorDetail(grade.i, "Runtime error"))]_vars

\* C18 witness: after a test case had passed, a child printed the expected
\* output and ended with a non-zero exit.
C18_Witness ==
    /\ grade.pc = "finally"
    /\ grade.child # <<>>
    /\ grade.child.kind = "exit"
    /\ grade.child.returncode # 0
    /\ compare(grade.child.stdout, grade.all_tests[grade.i + 1].expected_output)
    /\ grade.passed_count = 1
    /\ grade.error_details = <<ErrorDetail(grade.i, "Runtime error")>>

\* C15: when the temporary file of a test case cannot be written, or its
\* child process cannot be spawned, grade_submission raises: the event is
\* not judged as a test case.
C15_RunnerFailureRaises ==
    grade.pc = "finally" =>
        \/ grade.child = <<>> /\ grade.raising
        \/ grade.child # <<>> /\ grade.child.kind # "exec_error"
        \/ grade.child # <<>> /\ grade.child.kind = "exec_error" /\ grade.raising

\* C17: when grade_submission or run_code has returned or raised, no
\* temporary file that the call created is left.
C17_NoFileLeft ==
    grade.pc \in {"returned", "raised", "run_returned"} => grade.files = {}


(***************************************************************************)
(* Properties of the submit handler (Spec, SpecReport, SpecRestart).       *)
(***************************************************************************)
\* handler t is inside grade_submission for a problem with a test case: it
\* waits on a child process
WaitsOnChild(t) ==
    /\ requests[t].pc = "grading"
    /\ all_tests(test_cases[requests[t].problem_id]) # <<>>

\* C13: while a handler waits on the child process of a test case, the
\* event loop is free to start the handler of another submission.
C13_GradingDoesNotBlock ==
    \A t \in Tasks : WaitsOnChild(t) => running = 0

\* the handlers of the applications that look the problem up
LooksUp == app \in {"server", "api_server"}

\* C14: grade_submission raises FileNotFoundError for a problem id without
\* a test-case file; in server.py and api_server.py a request for such an
\* id is answered 404 and no other request is, a failed grading is
\* answered 500, the request changes neither `submissions` nor
\* leaderboard.json, and no entry for such an id is ever in the list.
C14_NotFound ==
    /\ [](LooksUp =>
             /\ \A outs \in OutcomesOf("missing", SubmitOutcomes) :
                    LET graded == grade_submission_of("missing", outs)
                    IN  graded.raised /\ graded.error = "FileNotFoundError"
             /\ \A t \in Tasks :
                    requests[t].pc # "idle" =>
                        (requests[t].status = 404
                             <=> requests[t].problem_id \notin Problems)
             /\ \A k \in 1..Len(submissions) :
                    submissions[k].problem_id \in Problems)
    /\ [][LooksUp =>
             \A t \in Tasks :
                 (requests'[t].pc # "idle"
                      /\ requests'[t].problem_id \notin Problems) =>
                     /\ requests'[t].pc = "done"
                     /\ requests'[t].response = <<>>
                     /\ submissions' = submissions
                     /\ leaderboard_file' = leaderboard_file]_vars

\* C14 witness: a request for the problem id "missing" is answered 404
\* when the list holds an entry.
C14_Witness ==
    /\ LooksUp
    /\ submissions # <<>>
    /\ \E t \in Tasks :
          /\ requests[t].pc = "done"
          /\ requests[t].problem_id = "missing"
          /\ requests[t].status = 404

\* C16: in server.py the error details of a grade report returned to the
\* caller, of the entry returned with it and of every entry in
\* `submissions` are at most 3; those that grade_submission returns are at
\* most 5.
C16_DiagnosticsCapped ==
    app = "server" =>
        /\ \A t \in Tasks :
              /\ requests[t].result # <<>> =>
                     Len(requests[t].result.error_details) <= 5
              /\ requests[t].response # <<>> =>
                     /\ Len(requests[t].response.grade.error_details) <= 3
                     /\ Len(requests[t].response.leaderboard_entry.error_details)
                            <= 3
        /\ \A k \in 1..Len(submissions) :
              Len(submissions[k].error_details) <= 3

\* a submit has completed: its handler has returned the 200 response
Completed(t) == requests[t].pc = "done" /\ requests[t].status = 200

\* the file holds the list
Holds(file, subs) == file.exists /\ file.content = json_dump(subs)

\* the step in which a handler updates the list, saves it and returns
UpdateStep(t) == requests[t].pc = "found" /\ requests'[t].pc = "done"

=============================================================================
